---- MODULE Spec2Model ----
(***************************************************************************)
(* Authentication and 2FA subsystem of euromedia-backend.                  *)
(*                                                                         *)
(* The user collection, the clock, the number of TOTP secrets generated    *)
(* and the signing secrets of the environment form the state; every use    *)
(* case (Register, Login, VerifyEmail, ResetPasswordRequest,               *)
(* ResetPassword, Refresh, Initiate, Setup, Verify, Deinit, UpdateUser) is *)
(* one action that runs the whole handler.  The variable res records the   *)
(* last request and its response.                                          *)
(*                                                                         *)
(* Spec follows two accounts and their sessions as time passes, Spec2FA    *)
(* the two-factor authentication of one account, SpecExpiry the same as    *)
(* the tokens issued at time 0 grow old.  SpecRace lets two requests of    *)
(* one account overlap: there a handler is two steps or three, one for     *)
(* each wait on the store, inflight holds what each request has loaded,    *)
(* and version is the version key of each stored document.                 *)
(***************************************************************************)
EXTENDS Integers, Sequences, FiniteSets, TLC

VARIABLES db, now, gens, jwt, res, inflight, version

vars == <<db, now, gens, jwt, res, inflight, version>>

---------------------------------------------------------------------------
(* Bounds of the model *)

MaxSetups == 2
MaxTime == 300
MaxRun == 5

(* Program constants *)

count == 10
window == 1
AccessTTL == 300
RefreshTTL == 2592000
PendingLoginTTL == 420
PendingInitiateTTL == 720
EmailTTL == 3600
TotpStep == 30

Ids == {1, 2}
Emails == {1, 2}
Passwords == {"password-1", "password-2"}
TickSteps == {300}
Times == {t \in 0..MaxTime : \E d \in TickSteps : t % d = 0}

---------------------------------------------------------------------------
(* Values *)

Null == -1
Undefined == -1
NoSecret == [ciphertext |-> <<>>, iv |-> 0, tag |-> <<>>]
NoPassword == <<>>
NoCode == <<>>
FakeCode == <<0, 0>>
WrongTotp == <<0, 0>>
NoHeader == [scheme |-> "none", token |-> [id |-> 0, type |-> "none", key |-> 0, exp |-> 0, mail |-> "none"]]
NoToken == NoHeader.token

Range(s) == {s[i] : i \in 1..Len(s)}

(* TwoFASchema defaults *)
TwoFADefaults ==
  [is2FASetUp |-> FALSE,
   twoFASecret |-> NoSecret,
   last2FAVerifiedAt |-> Undefined,
   lockedUntil |-> Null,
   recoveryCodes |-> <<>>,
   failed2FAAttempts |-> 0]

NoUser ==
  [exists |-> FALSE, email |-> 0, password |-> NoPassword, verified |-> FALSE,
   twoFA |-> TwoFADefaults]

(* UserSchema: a new document built from meta and auth data *)
NewUser(email, passwordHash) ==
  [exists |-> TRUE, email |-> email, password |-> passwordHash,
   verified |-> FALSE, twoFA |-> TwoFADefaults]

(* The two environments of the signing secrets: one secret per purpose, or
   one secret shared by every purpose. *)
JwtConfigs ==
  {[acs |-> 1, rfs |-> 2, p2a |-> 3, eml |-> 4],
   [acs |-> 1, rfs |-> 1, p2a |-> 1, eml |-> 1]}

---------------------------------------------------------------------------
(* bcrypt *)

hash(plain) == <<"bcrypt", plain>>

compare(plain, hashed) == Len(hashed) = 2 /\ hashed[1] = "bcrypt" /\ hashed[2] = plain

hashPassword(password) == hash(password)

---------------------------------------------------------------------------
(* jsonwebtoken.  A token carries its payload (id, type, exp) and the secret
   it was signed with; mail names the mail that carried it to the user
   ("none" for a token returned in a response) and is read by no handler. *)

signAt(iat, id, type, key, ttl, mail) ==
  [id |-> id, type |-> type, key |-> key, exp |-> iat + ttl, mail |-> mail]

sign(id, type, key, ttl, mail) == signAt(now, id, type, key, ttl, mail)

(* verify that does not look at the expiry *)
verifyIgnoringExpiry(token, key) ==
  IF key = 0 \/ token.key = 0 \/ token.key # key THEN "JsonWebTokenError"
  ELSE "ok"

(* verify that still accepts a token in the second of its expiry *)
verifyLate(token, key) ==
  IF key = 0 \/ token.key = 0 \/ token.key # key THEN "JsonWebTokenError"
  ELSE IF now > token.exp THEN "TokenExpiredError"
  ELSE "ok"

(* "ok", or the name of the error verify() throws *)
verify(token, key) ==
  IF key = 0 \/ token.key = 0 \/ token.key # key THEN "JsonWebTokenError"
  ELSE IF now >= token.exp THEN "TokenExpiredError"
  ELSE "ok"

---------------------------------------------------------------------------
(* AES-GCM of the TOTP secret, and speakeasy *)

encrypt2FASecret(secret, iv) ==
  [ciphertext |-> <<"aes", secret, iv>>, iv |-> iv, tag |-> <<"tag", secret, iv>>]

(* [err, secret]: decipher.final() throws when the tag does not verify *)
decrypt2FASecret(ciphertext, iv, tag) ==
  IF Len(ciphertext) = 3 /\ ciphertext[3] = iv /\ tag = <<"tag", ciphertext[2], iv>>
  THEN [err |-> "ok", secret |-> ciphertext[2]]
  ELSE [err |-> "Error", secret |-> 0]

(* The code of a secret at a time: speakeasy.totp *)
totp(secret, time) == <<secret, time \div TotpStep>>

(* totp.verify that looks one step further than its window *)
totpVerifyWide(secret, token, w) ==
  /\ token[1] = secret
  /\ token[2] >= (now \div TotpStep) - (w + 1)
  /\ token[2] <= (now \div TotpStep) + (w + 1)

(* speakeasy.totp.verify with a window *)
totpVerify(secret, token, w) ==
  /\ token[1] = secret
  /\ token[2] >= (now \div TotpStep) - w
  /\ token[2] <= (now \div TotpStep) + w

---------------------------------------------------------------------------
(* AuthUseCase *)

getUserById(id) == IF id \in Ids /\ db[id].exists THEN id ELSE 0

getUserByEmail(email) ==
  IF \E i \in Ids : db[i].exists /\ db[i].email = email
  THEN CHOOSE i \in Ids : db[i].exists /\ db[i].email = email
  ELSE 0

(* [err, user]: err is "ok" or the error thrown *)
checkExistance(key, keyType, issue) ==
  LET existingUser == IF keyType = "id" THEN getUserById(key) ELSE getUserByEmail(key)
  IN IF issue = "conflict"
     THEN [err |-> IF existingUser # 0 THEN "ConflictError" ELSE "ok", user |-> existingUser]
     ELSE [err |-> IF existingUser = 0 THEN "NotFoundError" ELSE "ok", user |-> existingUser]

generateTokens(id) ==
  {sign(id, "refresh-token", jwt.rfs, RefreshTTL, "none"),
   sign(id, "access-token", jwt.acs, AccessTTL, "none")}

readAuthHeader(header) ==
  IF header.scheme = "none" THEN [err |-> "BadRequestError", token |-> NoToken]
  ELSE IF header.scheme # "Bearer" \/ header.token = NoToken
       THEN [err |-> "BadRequestError", token |-> NoToken]
       ELSE [err |-> "ok", token |-> header.token]

(* decodeUserId without the comparison of payload.type *)
decodeUserIdAnyType(token, expectedType) ==
  LET jwt_key == IF expectedType = "access-token" THEN jwt.acs
                 ELSE IF expectedType = "2fa_pending" THEN jwt.p2a
                 ELSE 0
  IN IF verify(token, jwt_key) # "ok" THEN [err |-> "UnauthorizedError", id |-> 0]
     ELSE [err |-> "ok", id |-> token.id]

(* decodeUserId with the secrets of the two handled types exchanged *)
decodeUserIdOtherKey(token, expectedType) ==
  LET jwt_key == IF expectedType = "access-token" THEN jwt.p2a
                 ELSE IF expectedType = "2fa_pending" THEN jwt.acs
                 ELSE 0
  IN IF verify(token, jwt_key) # "ok" THEN [err |-> "UnauthorizedError", id |-> 0]
     ELSE IF token.type # expectedType THEN [err |-> "UnauthorizedError", id |-> 0]
     ELSE [err |-> "ok", id |-> token.id]

decodeUserId(token, expectedType) ==
  LET jwt_key == IF expectedType = "access-token" THEN jwt.acs
                 ELSE IF expectedType = "2fa_pending" THEN jwt.p2a
                 ELSE 0
      v == verify(token, jwt_key)
  IN IF v # "ok" THEN [err |-> "UnauthorizedError", id |-> 0]
     ELSE IF token.type # expectedType THEN [err |-> "UnauthorizedError", id |-> 0]
     ELSE [err |-> "ok", id |-> token.id]

(* authenticate with pending tokens that a successful Verify uses up *)
authenticateOnce(header, expectedType) ==
  IF header = NoHeader THEN [err |-> "ZodError", user |-> 0]
  ELSE LET h == readAuthHeader(header)
       IN IF h.err # "ok" THEN [err |-> h.err, user |-> 0]
          ELSE LET d == decodeUserId(h.token, expectedType)
               IN IF d.err # "ok" THEN [err |-> d.err, user |-> 0]
                  ELSE IF /\ expectedType = "2fa_pending"
                          /\ res.op = "Verify" /\ res.err = "ok" /\ res.user = d.id
                       THEN [err |-> "UnauthorizedError", user |-> 0]
                  ELSE LET c == checkExistance(d.id, "id", "absence")
                       IN [err |-> c.err, user |-> d.id]

(* The common head of the token-authenticated use cases: schema.parse,
   readAuthHeader, decodeUserId, checkExistance.  [err, user] *)
authenticate(header, expectedType) ==
  IF header = NoHeader THEN [err |-> "ZodError", user |-> 0]
  ELSE LET h == readAuthHeader(header)
       IN IF h.err # "ok" THEN [err |-> h.err, user |-> 0]
          ELSE LET d == decodeUserId(h.token, expectedType)
               IN IF d.err # "ok" THEN [err |-> d.err, user |-> 0]
                  ELSE LET c == checkExistance(d.id, "id", "absence")
                       IN [err |-> c.err, user |-> d.id]

---------------------------------------------------------------------------
(* Requests and responses *)

(* What res keeps of a request: the scheme of its header, the type and the
   mail of the token in it and whether the token had expired when it was
   presented, the email of its body, whether it carried a TOTP code, and the
   recovery code it carried *)
Request(header, email, twoFACode, recoveryCode) ==
  [scheme |-> header.scheme, type |-> header.token.type, mail |-> header.token.mail,
   expired |-> header.token # NoToken /\ now >= header.token.exp,
   email |-> email, twoFACode |-> twoFACode # NoCode, recoveryCode |-> recoveryCode]

NoRequest == Request(NoHeader, 0, NoCode, NoCode)

(* A response: the error thrown or "ok", the account the request was
   authenticated for, the tokens returned or mailed.  run counts, up to
   MaxRun, the failed Verify attempts made in a row on one account, this one
   included; on a successful Verify it is the number of failed attempts that
   came right before it. *)
Response(op, req, err, user, out, run) ==
  [op |-> op, req |-> req, err |-> err, user |-> user, out |-> out, run |-> run]

(* The outcome of a handler: the error it throws or "ok", the store it
   leaves, the tokens it returns or mails, the number of secrets generated *)
Outcome(err, user, store, out, g) ==
  [err |-> err, user |-> user, db |-> store, out |-> out, gens |-> g]

Fail(err, user) == Outcome(err, user, db, {}, gens)

Run(op, r) ==
  LET before == IF res.op = "Verify" /\ res.err # "ok" /\ res.user = r.user
                THEN res.run ELSE 0
  IN  IF op = "Verify" /\ r.user # 0
      THEN (IF r.err = "ok" \/ before = MaxRun THEN before ELSE before + 1)
      ELSE 0

(* A handler has run: its effects are in the store and its response is
   recorded. *)
Reply(op, req, r) ==
  /\ r.gens <= MaxSetups
  /\ db' = r.db
  /\ gens' = r.gens
  /\ res' = Response(op, req, r.err, r.user, r.out, Run(op, r))
  /\ UNCHANGED <<now, jwt, inflight, version>>

---------------------------------------------------------------------------
(* RegisterUseCase *)

(* What newUser.save() does: it resolves, or it rejects with a
   ValidationError or with another error of the store *)
SaveOutcomes == {"ok", "ValidationError", "MongoServerError"}

(* [err, id, db]: the catch block rethrows a ValidationError as
   BadRequestError and drops every other error, and createInstance then
   returns no id *)
createInstance(email, password, saved) ==
  LET id == CHOOSE i \in Ids : ~db[i].exists /\ \A j \in Ids : j < i => db[j].exists
  IN IF saved = "ok"
     THEN [err |-> "ok", id |-> id,
           db |-> [db EXCEPT ![id] = NewUser(email, hashPassword(password))]]
     ELSE IF saved = "ValidationError" THEN [err |-> "BadRequestError", id |-> 0, db |-> db]
     ELSE [err |-> "ok", id |-> 0, db |-> db]

sendVerificationEmail(id) == sign(id, "none", jwt.eml, EmailTTL, "verification")

(* RegisterUseCase that removes the record when the mail is not sent *)
RegisterUseCaseRollback(email, password, sent, saved) ==
  IF checkExistance(email, "email", "conflict").err # "ok" THEN Fail("ConflictError", 0)
  ELSE LET c == createInstance(email, password, saved)
       IN IF c.err # "ok" THEN Fail(c.err, 0)
          ELSE IF sent THEN Outcome("ok", c.id, c.db, {sendVerificationEmail(c.id)}, gens)
          ELSE Outcome("Error", c.id, db, {}, gens)

(* sent: whether transporter.sendMail resolves; when it rejects, execute
   rejects with its error after the record was saved *)
RegisterUseCase(email, password, sent, saved) ==
  IF checkExistance(email, "email", "conflict").err # "ok" THEN Fail("ConflictError", 0)
  ELSE LET c == createInstance(email, password, saved)
       IN IF c.err # "ok" THEN Fail(c.err, 0)
          ELSE IF sent THEN Outcome("ok", c.id, c.db, {sendVerificationEmail(c.id)}, gens)
          ELSE Outcome("Error", c.id, c.db, {}, gens)

(* VerifyEmailUseCase *)
VerifyEmailUseCase(token) ==
  IF token = NoToken THEN Fail("BadRequestError", 0)
  ELSE IF verify(token, jwt.eml) # "ok" THEN Fail(verify(token, jwt.eml), 0)
  ELSE IF getUserById(token.id) = 0 THEN Fail("NotFoundError", 0)
  ELSE Outcome("ok", token.id, [db EXCEPT ![token.id].verified = TRUE],
               generateTokens(token.id), gens)

(* ResetPasswordRequestUseCase *)
ResetPasswordRequestUseCase(email) ==
  LET c == checkExistance(email, "email", "absence")
  IN IF c.err # "ok" THEN Fail(c.err, 0)
     ELSE Outcome("ok", c.user, db,
                  {sign(c.user, "none", jwt.eml, EmailTTL, "reset")}, gens)

(* ResetPasswordUseCase that resets the account of the email of the body *)
ResetPasswordUseCaseByEmail(email, password, header) ==
  LET c == checkExistance(email, "email", "absence")
  IN IF c.err # "ok" THEN Fail("NotFoundError", 0)
     ELSE IF header = NoHeader THEN Fail("UnauthorizedError", 0)
     ELSE IF verify(header.token, jwt.eml) # "ok" THEN Fail(verify(header.token, jwt.eml), 0)
     ELSE IF getUserById(header.token.id) = 0 THEN Fail("NotFoundError", 0)
     ELSE Outcome("ok", header.token.id,
                  [db EXCEPT ![c.user].password = hashPassword(password)], {}, gens)

(* ResetPasswordUseCase *)
ResetPasswordUseCase(email, password, header) ==
  IF checkExistance(email, "email", "absence").err # "ok" THEN Fail("NotFoundError", 0)
  ELSE IF header = NoHeader THEN Fail("UnauthorizedError", 0)
  ELSE IF verify(header.token, jwt.eml) # "ok" THEN Fail(verify(header.token, jwt.eml), 0)
  ELSE IF getUserById(header.token.id) = 0 THEN Fail("NotFoundError", 0)
  ELSE Outcome("ok", header.token.id,
               [db EXCEPT ![header.token.id].password = hashPassword(password)], {}, gens)

(* decideStrategy of LoginUseCase without the branch on is2FASetUp *)
LoginDecideStrategySession(user) == generateTokens(user)

(* LoginUseCase *)
LoginDecideStrategy(user) ==
  IF db[user].twoFA.is2FASetUp
  THEN {sign(user, "2fa_pending", jwt.p2a, PendingLoginTTL, "none")}
  ELSE generateTokens(user)

LoginUseCase(email, password) ==
  LET c == checkExistance(email, "email", "absence")
  IN IF c.err # "ok" THEN Fail(c.err, 0)
     ELSE IF ~compare(password, db[c.user].password) THEN Fail("UnauthorizedError", c.user)
     ELSE Outcome("ok", c.user, db, LoginDecideStrategy(c.user), gens)

(* RefreshAccessToken: every error inside the try block, NotFoundError
   included, is rethrown as UnauthorizedError *)
RefreshAccessToken(refreshToken) ==
  IF refreshToken = NoToken THEN Fail("ZodError", 0)
  ELSE IF verify(refreshToken, jwt.rfs) # "ok" THEN Fail("UnauthorizedError", 0)
  ELSE IF checkExistance(refreshToken.id, "id", "absence").err # "ok"
       THEN Fail("UnauthorizedError", refreshToken.id)
  ELSE Outcome("ok", refreshToken.id, db,
               {sign(refreshToken.id, "access-token", jwt.acs, AccessTTL, "none")}, gens)

---------------------------------------------------------------------------
(* Setup2FAUseCase *)

generate2FASecret(g) == g

storeSecret(store, user, base32Secret, iv) ==
  [store EXCEPT ![user].twoFA.twoFASecret = encrypt2FASecret(base32Secret, iv)]

generateRecoveryCodes(g) == [i \in 1..count |-> <<g, i>>]

hashRecoveryCodes(store, codes, user) ==
  [store EXCEPT ![user].twoFA.recoveryCodes = @ \o [i \in 1..Len(codes) |-> hash(codes[i])]]

Setup2FAUseCase(header) ==
  LET a == authenticate(header, "2fa_pending")
      g == gens + 1
  IN IF a.err # "ok" THEN Fail(a.err, a.user)
     ELSE Outcome("ok", a.user,
                  hashRecoveryCodes(storeSecret(db, a.user, generate2FASecret(g), g),
                                    generateRecoveryCodes(g), a.user),
                  {}, g)

(* Verify2FAUseCase *)

(* getDecryptedSecret that falls back on an empty secret *)
getDecryptedSecretDefault(user) ==
  IF db[user].twoFA.twoFASecret = NoSecret THEN [err |-> "ok", secret |-> 0]
  ELSE LET e == db[user].twoFA.twoFASecret
       IN decrypt2FASecret(e.ciphertext, e.iv, e.tag)

(* [err, secret] *)
getDecryptedSecret(user) ==
  IF db[user].twoFA.twoFASecret = NoSecret THEN [err |-> "UnauthorizedError", secret |-> 0]
  ELSE LET e == db[user].twoFA.twoFASecret
       IN decrypt2FASecret(e.ciphertext, e.iv, e.tag)

(* verify2FACode without the assignment to is2FASetUp *)
verify2FACodeKeepsFlag(code, id) ==
  LET s == getDecryptedSecret(id)
  IN IF s.err # "ok" THEN [err |-> s.err, db |-> db]
     ELSE IF ~totpVerify(s.secret, code, window)
          THEN [err |-> "UnauthorizedError", db |-> db]
          ELSE [err |-> "ok",
                db |-> [db EXCEPT ![id].twoFA.failed2FAAttempts = 0,
                                  ![id].twoFA.last2FAVerifiedAt = now]]

(* [err, db] *)
verify2FACode(code, id) ==
  LET s == getDecryptedSecret(id)
  IN IF s.err # "ok" THEN [err |-> s.err, db |-> db]
     ELSE IF ~totpVerify(s.secret, code, window)
          THEN [err |-> "UnauthorizedError", db |-> db]
          ELSE [err |-> "ok",
                db |-> [db EXCEPT ![id].twoFA.is2FASetUp = TRUE,
                                  ![id].twoFA.failed2FAAttempts = 0,
                                  ![id].twoFA.last2FAVerifiedAt = now]]

(* The index of the first stored hash the code matches, or 0 *)
matchIndex(recoveryCode, recoveryCodes) ==
  IF \E i \in 1..Len(recoveryCodes) : compare(recoveryCode, recoveryCodes[i])
  THEN CHOOSE i \in 1..Len(recoveryCodes) :
         /\ compare(recoveryCode, recoveryCodes[i])
         /\ \A j \in 1..(i - 1) : ~compare(recoveryCode, recoveryCodes[j])
  ELSE 0

(* splice at the head of the list, whatever the index *)
spliceHead(s, i) == Tail(s)

splice(s, i) == [j \in 1..(Len(s) - 1) |-> IF j < i THEN s[j] ELSE s[j + 1]]

(* [err, db] *)
verifyRecoveryCode(recoveryCode, user) ==
  LET i == matchIndex(recoveryCode, db[user].twoFA.recoveryCodes)
  IN IF i = 0 THEN [err |-> "UnauthorizedError", db |-> db]
     ELSE [err |-> "ok",
           db |-> [db EXCEPT ![user].twoFA.recoveryCodes = splice(@, i)]]

(* [err, db] *)
decideStrategy(twoFACode, recoveryCode, userId) ==
  IF twoFACode # NoCode THEN verify2FACode(twoFACode, userId)
  ELSE IF recoveryCode # NoCode THEN verifyRecoveryCode(recoveryCode, userId)
  ELSE [err |-> "ok", db |-> db]

Verify2FAUseCase(header, twoFACode, recoveryCode) ==
  LET a == authenticate(header, "2fa_pending")
  IN IF a.err # "ok" THEN Fail(a.err, a.user)
     ELSE LET s == decideStrategy(twoFACode, recoveryCode, a.user)
          IN IF s.err # "ok" THEN Fail(s.err, a.user)
             ELSE Outcome("ok", a.user, s.db, generateTokens(a.user), gens)

(* Initiate2FAUseCase without the test of is2FASetUp *)
Initiate2FAUseCaseUnguarded(header) ==
  LET a == authenticate(header, "access-token")
  IN IF a.err # "ok" THEN Fail(a.err, a.user)
     ELSE Outcome("ok", a.user, db,
                  {sign(a.user, "2fa_pending", jwt.p2a, PendingInitiateTTL, "none")}, gens)

(* Initiate2FAUseCase *)
Initiate2FAUseCase(header) ==
  LET a == authenticate(header, "access-token")
  IN IF a.err # "ok" THEN Fail(a.err, a.user)
     ELSE IF db[a.user].twoFA.is2FASetUp THEN Fail("BadRequestError", a.user)
     ELSE Outcome("ok", a.user, db,
                  {sign(a.user, "2fa_pending", jwt.p2a, PendingInitiateTTL, "none")}, gens)

(* Deinit2FAUseCase *)
Deinit2FAUseCase(header) ==
  LET a == authenticate(header, "access-token")
  IN IF a.err # "ok" THEN Fail(a.err, a.user)
     ELSE Outcome("ok", a.user,
                  [db EXCEPT ![a.user].twoFA.is2FASetUp = FALSE,
                             ![a.user].twoFA.twoFASecret = NoSecret,
                             ![a.user].twoFA.last2FAVerifiedAt = Undefined,
                             ![a.user].twoFA.recoveryCodes = <<>>,
                             ![a.user].twoFA.failed2FAAttempts = 0],
                  {}, gens)

(* UpdateUserUseCase: findByIdAndUpdate with the request's data, here a
   value for the path twoFA.lockedUntil *)
UpdateUserUseCase(id, lockedUntil) ==
  IF getUserById(id) = 0 THEN Fail("NotFoundError", 0)
  ELSE Outcome("ok", id, [db EXCEPT ![id].twoFA.lockedUntil = lockedUntil], {}, gens)

---------------------------------------------------------------------------
(* What a client can send *)

(* The tokens a client can hold: for every account, what VerifyEmail, Login
   and Verify (an access and a refresh token), Login and Initiate (a pending
   token), Register and ResetPasswordRequest (a mailed token) hand out, issued
   at any time up to now; and tokens signed with a secret of the client's own. *)
IssuedAt(t, u) ==
  {signAt(t, u, "refresh-token", jwt.rfs, RefreshTTL, "none"),
   signAt(t, u, "access-token", jwt.acs, AccessTTL, "none"),
   signAt(t, u, "2fa_pending", jwt.p2a, PendingLoginTTL, "none"),
   signAt(t, u, "2fa_pending", jwt.p2a, PendingInitiateTTL, "none"),
   signAt(t, u, "none", jwt.eml, EmailTTL, "verification"),
   signAt(t, u, "none", jwt.eml, EmailTTL, "reset")}

Forged(u) ==
  {signAt(now, u, "access-token", 0, AccessTTL, "none"),
   signAt(now, u, "2fa_pending", 0, PendingInitiateTTL, "none")}

Tokens(users) ==
  UNION {IssuedAt(t, u) : t \in {x \in Times : x <= now}, u \in {i \in users : db[i].exists}}

ForgedTokens == UNION {Forged(u) : u \in {i \in Ids : db[i].exists}}

MalformedHeader == [scheme |-> "Basic", token |-> NoToken]

Bearer(t) == [scheme |-> "Bearer", token |-> t]

Headers(T) == {NoHeader, MalformedHeader} \cup {Bearer(t) : t \in T}

(* TOTP codes: of any secret generated so far, for the current time step,
   the one before (inside the window) and the one two before (outside) *)
TotpCodes ==
  {<<s, (now \div TotpStep) - k>> : s \in 1..gens, k \in 0..2} \cup {WrongTotp}

StoredCodes == UNION {{h[2] : h \in Range(db[u].twoFA.recoveryCodes)} : u \in Ids}

(* Recovery codes: a client uses the stored codes in the order of the list;
   it can submit the first one of the list, replay the last one it used of a
   Setup, or make one up. *)
RecoveryCodes ==
  {FakeCode}
    \cup {h[2] : h \in {Head(db[u].twoFA.recoveryCodes) :
                          u \in {i \in Ids : db[i].twoFA.recoveryCodes # <<>>}}}
    \cup {c \in (1..gens) \X (1..count) :
            c \notin StoredCodes /\ (c[2] = count \/ <<c[1], c[2] + 1>> \in StoredCodes)}

LockDates == {Null, MaxTime + 900}

---------------------------------------------------------------------------
(* Requests in flight.  A handler awaits the store twice or more: between
   its checkExistance and its user.save() another request can load or save
   the same user.  inflight[p] is the request of p: where it is, the document
   it loaded and the version (__v) the document had, its input, and, when it
   is done, its response. *)

Procs == {1, 2}

Idle ==
  [pc |-> "idle", op |-> "none", user |-> 0, doc |-> NoUser, v |-> 0, g |-> 0,
   twoFACode |-> NoCode, recoveryCode |-> NoCode, err |-> "ok", out |-> {}]

Quiet == \A p \in Procs : inflight[p].pc = "idle"

(* user.save() writes the paths the handler has modified on the document it
   loaded and leaves every other path of the stored document as it is.  A
   save that replaces an array is made on the condition that the stored
   version is the loaded one, fails with VersionError when it is not, and
   increments the version; a save that pushes onto an array increments the
   version without the condition. *)

(* verify2FACode from its checkExistance on: [err, db] *)
verify2FACodeLoaded(code, id, doc) ==
  IF doc.twoFA.twoFASecret = NoSecret THEN [err |-> "UnauthorizedError", db |-> db]
  ELSE LET e == doc.twoFA.twoFASecret
           s == decrypt2FASecret(e.ciphertext, e.iv, e.tag)
       IN IF s.err # "ok" THEN [err |-> s.err, db |-> db]
          ELSE IF ~totpVerify(s.secret, code, window)
               THEN [err |-> "UnauthorizedError", db |-> db]
               ELSE [err |-> "ok",
                     db |-> [db EXCEPT
                       ![id].twoFA.is2FASetUp = IF doc.twoFA.is2FASetUp THEN @ ELSE TRUE,
                       ![id].twoFA.failed2FAAttempts = IF doc.twoFA.failed2FAAttempts = 0 THEN @ ELSE 0,
                       ![id].twoFA.last2FAVerifiedAt = now]]

(* verifyRecoveryCode whose save is not conditioned on the version *)
verifyRecoveryCodeUnversioned(recoveryCode, user, doc, v) ==
  LET i == matchIndex(recoveryCode, doc.twoFA.recoveryCodes)
  IN IF i = 0 THEN [err |-> "UnauthorizedError", db |-> db, version |-> version]
     ELSE [err |-> "ok",
           db |-> [db EXCEPT ![user].twoFA.recoveryCodes = splice(doc.twoFA.recoveryCodes, i)],
           version |-> [version EXCEPT ![user] = @ + 1]]

(* verifyRecoveryCode on the document decideStrategy loaded: [err, db, version] *)
verifyRecoveryCodeLoaded(recoveryCode, user, doc, v) ==
  LET i == matchIndex(recoveryCode, doc.twoFA.recoveryCodes)
  IN IF i = 0 THEN [err |-> "UnauthorizedError", db |-> db, version |-> version]
     ELSE IF version[user] # v THEN [err |-> "VersionError", db |-> db, version |-> version]
     ELSE [err |-> "ok",
           db |-> [db EXCEPT ![user].twoFA.recoveryCodes = splice(doc.twoFA.recoveryCodes, i)],
           version |-> [version EXCEPT ![user] = @ + 1]]

(* Deinit2FAUseCase from its checkExistance on: [err, db, version] *)
deinitLoaded(user, doc, v) ==
  LET replaced == doc.twoFA.recoveryCodes # <<>>
  IN IF replaced /\ version[user] # v
     THEN [err |-> "VersionError", db |-> db, version |-> version]
     ELSE [err |-> "ok",
           db |-> [db EXCEPT
             ![user].twoFA.is2FASetUp = IF doc.twoFA.is2FASetUp THEN FALSE ELSE @,
             ![user].twoFA.twoFASecret = IF doc.twoFA.twoFASecret # NoSecret THEN NoSecret ELSE @,
             ![user].twoFA.last2FAVerifiedAt =
                IF doc.twoFA.last2FAVerifiedAt # Undefined THEN Undefined ELSE @,
             ![user].twoFA.recoveryCodes = IF replaced THEN <<>> ELSE @,
             ![user].twoFA.failed2FAAttempts = IF doc.twoFA.failed2FAAttempts # 0 THEN 0 ELSE @],
           version |-> IF replaced THEN [version EXCEPT ![user] = @ + 1] ELSE version]

Done(q, err, out) == [q EXCEPT !.pc = "done", !.err = err, !.out = out]

(* The handler up to the checkExistance whose document it will save *)
Load(p, op, header, twoFACode, recoveryCode) ==
  /\ inflight[p].pc = "idle"
  /\ LET a == authenticate(header, IF op = "Deinit" THEN "access-token" ELSE "2fa_pending")
     IN inflight' = [inflight EXCEPT ![p] =
          IF a.err # "ok" THEN Done([Idle EXCEPT !.op = op], a.err, {})
          ELSE [pc |-> "loaded", op |-> op, user |-> a.user, doc |-> db[a.user],
                v |-> version[a.user], g |-> 0, twoFACode |-> twoFACode,
                recoveryCode |-> recoveryCode, err |-> "ok", out |-> {}]]
  /\ UNCHANGED <<db, now, gens, jwt, res, version>>

(* The rest of Verify2FAUseCase *)
SaveVerify(p) ==
  LET q == inflight[p]
      s == IF q.twoFACode # NoCode
           THEN verify2FACodeLoaded(q.twoFACode, q.user, q.doc) @@ [version |-> version]
           ELSE IF q.recoveryCode # NoCode
                THEN verifyRecoveryCodeLoaded(q.recoveryCode, q.user, q.doc, q.v)
                ELSE [err |-> "ok", db |-> db, version |-> version]
  IN /\ q.pc = "loaded" /\ q.op = "Verify"
     /\ db' = s.db
     /\ version' = s.version
     /\ inflight' = [inflight EXCEPT ![p] =
           Done(q, s.err, IF s.err = "ok" THEN generateTokens(q.user) ELSE {})]
     /\ UNCHANGED <<now, gens, jwt, res>>

(* The rest of Deinit2FAUseCase *)
SaveDeinit(p) ==
  LET q == inflight[p]
      s == deinitLoaded(q.user, q.doc, q.v)
  IN /\ q.pc = "loaded" /\ q.op = "Deinit"
     /\ db' = s.db
     /\ version' = s.version
     /\ inflight' = [inflight EXCEPT ![p] = Done(q, s.err, {})]
     /\ UNCHANGED <<now, gens, jwt, res>>

(* createAndStoreSecret of Setup2FAUseCase *)
StoreSecret(p) ==
  LET q == inflight[p]
      g == gens + 1
  IN /\ q.pc = "loaded" /\ q.op = "Setup"
     /\ g <= MaxSetups
     /\ db' = storeSecret(db, q.user, generate2FASecret(g), g)
     /\ gens' = g
     /\ inflight' = [inflight EXCEPT ![p].pc = "stored", ![p].g = g]
     /\ UNCHANGED <<now, jwt, res, version>>

(* hashRecoveryCodes of Setup2FAUseCase *)
PushRecoveryCodes(p) ==
  LET q == inflight[p]
  IN /\ q.pc = "stored"
     /\ db' = hashRecoveryCodes(db, generateRecoveryCodes(q.g), q.user)
     /\ version' = [version EXCEPT ![q.user] = @ + 1]
     /\ inflight' = [inflight EXCEPT ![p] = Done(q, "ok", {})]
     /\ UNCHANGED <<now, gens, jwt, res>>

---------------------------------------------------------------------------
(* The state machine *)

Init ==
  /\ db = [i \in Ids |-> NoUser]
  /\ now = 0
  /\ gens = 0
  /\ jwt \in JwtConfigs
  /\ res = Response("none", NoRequest, "ok", 0, {}, 0)
  /\ inflight = [p \in Procs |-> Idle]
  /\ version = [i \in Ids |-> 0]

Register(email, password, sent, saved) ==
  /\ \E i \in Ids : ~db[i].exists
  /\ Reply("Register", Request(NoHeader, email, NoCode, NoCode),
           RegisterUseCase(email, password, sent, saved))

VerifyEmail(token) ==
  Reply("VerifyEmail", Request([scheme |-> "path", token |-> token], 0, NoCode, NoCode),
        VerifyEmailUseCase(token))

ResetPasswordRequest(email) ==
  Reply("ResetPasswordRequest", Request(NoHeader, email, NoCode, NoCode),
        ResetPasswordRequestUseCase(email))

ResetPassword(email, password, header) ==
  Reply("ResetPassword", Request(header, email, NoCode, NoCode),
        ResetPasswordUseCase(email, password, header))

Login(email, password) ==
  Reply("Login", Request(NoHeader, email, NoCode, NoCode), LoginUseCase(email, password))

Refresh(token) ==
  Reply("Refresh", Request([scheme |-> "cookie", token |-> token], 0, NoCode, NoCode),
        RefreshAccessToken(token))

Initiate(header) ==
  Reply("Initiate", Request(header, 0, NoCode, NoCode), Initiate2FAUseCase(header))

Setup(header) ==
  Reply("Setup", Request(header, 0, NoCode, NoCode), Setup2FAUseCase(header))

Verify(header, twoFACode, recoveryCode) ==
  Reply("Verify", Request(header, 0, twoFACode, recoveryCode),
        Verify2FAUseCase(header, twoFACode, recoveryCode))

Deinit(header) ==
  Reply("Deinit", Request(header, 0, NoCode, NoCode), Deinit2FAUseCase(header))

UpdateUser(id, lockedUntil) ==
  Reply("UpdateUser", NoRequest, UpdateUserUseCase(id, lockedUntil))

(* The clock *)
Tick(d) ==
  /\ now + d <= MaxTime
  /\ now' = now + d
  /\ UNCHANGED <<db, gens, jwt, res, inflight, version>>

(* Accounts and sessions: registration, the mailed tokens, login and the
   request for a pending token, for two accounts, as time passes *)
Next ==
  \/ \E e \in Emails, sent \in BOOLEAN, saved \in SaveOutcomes :
       Register(e, "password-1", sent, saved)
  \/ \E t \in Tokens(Ids) \cup ForgedTokens \cup {NoToken} : VerifyEmail(t)
  \/ \E e \in Emails : ResetPasswordRequest(e)
  \/ \E e \in Emails, h \in Headers(Tokens(Ids) \cup ForgedTokens) :
       ResetPassword(e, "password-2", h)
  \/ \E e \in Emails, p \in Passwords : Login(e, p)
  \/ \E h \in Headers(Tokens(Ids) \cup ForgedTokens) : Initiate(h)
  \/ \E t \in Tokens(Ids) \cup ForgedTokens \cup {NoToken} : Refresh(t)
  \/ \E d \in TickSteps : Tick(d)

Spec == Init /\ [][Next]_vars

(* Two-factor authentication of one account: any header with one code or
   none, a pending token with every choice of codes *)
Headers2FA == Headers({t \in Tokens({1}) : t.mail # "reset"})

PendingHeaders == {h \in Headers2FA : h.token.type = "2fa_pending"}

Next2FA ==
  \/ Register(1, "password-1", TRUE, "ok")
  \/ \E p \in Passwords : Login(1, p)
  \/ \E h \in Headers2FA : Initiate(h)
  \/ \E h \in Headers2FA : Setup(h)
  \/ \E h \in Headers2FA, c \in {NoCode, WrongTotp} : Verify(h, c, NoCode)
  \/ \E h \in PendingHeaders, c \in TotpCodes \cup {NoCode}, r \in RecoveryCodes \cup {NoCode} :
       Verify(h, c, r)
  \/ \E h \in Headers2FA : Deinit(h)
  \/ \E l \in LockDates : UpdateUser(1, l)

Spec2FA == Init /\ [][Next2FA]_vars

(* The instants the clock is looked at: five seconds before and at the
   expiry of an access token issued at time 0, at the expiry of the pending
   token Login issued then, of the one Initiate issued then, and of the
   refresh token issued then *)
Instants ==
  {AccessTTL - 5, AccessTTL, PendingLoginTTL, PendingInitiateTTL, RefreshTTL}

(* Time passes, once the account exists *)
Sleep(t) ==
  /\ db[1].exists
  /\ t > now
  /\ now' = t
  /\ UNCHANGED <<db, gens, jwt, res, inflight, version>>

(* What the client of the account was handed out at time 0 *)
HeadersAt0 == Headers({t \in IssuedAt(0, 1) : db[1].exists /\ t.mail # "reset"})

(* The TOTP code of the stored secret for the current step *)
CurrentCodes ==
  {totp(db[u].twoFA.twoFASecret.ciphertext[2], now) :
     u \in {i \in Ids : db[i].twoFA.twoFASecret # NoSecret}}

(* Two-factor authentication of one account as its tokens grow old: the
   tokens issued at time 0, presented with a correct code or none *)
NextExpiry ==
  \/ Register(1, "password-1", TRUE, "ok")
  \/ \E h \in HeadersAt0 : Initiate(h)
  \/ \E h \in HeadersAt0 : Setup(h)
  \/ \E h \in HeadersAt0, c \in CurrentCodes \cup {NoCode} : Verify(h, c, NoCode)
  \/ \E h \in HeadersAt0 : Deinit(h)
  \/ \E h \in HeadersAt0 : Refresh(h.token)
  \/ \E t \in Instants : Sleep(t)

SpecExpiry == Init /\ [][NextExpiry]_vars

PendingAt0 == {h \in HeadersAt0 : h.token.type = "2fa_pending"}

AccessAt0 == {h \in HeadersAt0 : h.token.type = "access-token"}

(* Two requests of one account in flight at once, after any number of
   requests that ran one after the other *)
NextRace ==
  \/ Quiet /\ Register(1, "password-1", TRUE, "ok")
  \/ Quiet /\ \E h \in PendingAt0 : Setup(h)
  \/ Quiet /\ \E h \in PendingAt0, c \in CurrentCodes : Verify(h, c, NoCode)
  \/ Quiet /\ \E h \in AccessAt0 : Deinit(h)
  \/ \E p \in Procs, h \in PendingAt0 : Load(p, "Setup", h, NoCode, NoCode)
  \/ \E p \in Procs, h \in PendingAt0, c \in CurrentCodes \cup {WrongTotp} :
       Load(p, "Verify", h, c, NoCode)
  \/ \E p \in Procs, h \in PendingAt0, r \in RecoveryCodes : Load(p, "Verify", h, NoCode, r)
  \/ \E p \in Procs, h \in AccessAt0 : Load(p, "Deinit", h, NoCode, NoCode)
  \/ \E p \in Procs : StoreSecret(p)
  \/ \E p \in Procs : PushRecoveryCodes(p)
  \/ \E p \in Procs : SaveVerify(p)
  \/ \E p \in Procs : SaveDeinit(p)

SpecRace == Init /\ [][NextRace]_vars

---------------------------------------------------------------------------
(* Properties *)

TokenTypes == {"access-token", "refresh-token", "2fa_pending"}

Rejected(r) == r.err = "UnauthorizedError" /\ r.db = db /\ r.out = {}

(* C1: a token issued with one of the types access-token, refresh-token and
   2fa_pending is never accepted by an operation that expects another of
   them, whatever the signing secrets: Initiate and Deinit fail with
   UnauthorizedError on every token that is not an access-token, Setup and
   Verify on every token that is not a 2fa_pending token, and the store is
   left as it was. *)
C1_CrossTypeRejected ==
  \A h \in Headers2FA :
    (h.scheme = "Bearer" /\ h.token.type \in TokenTypes) =>
      /\ h.token.type # "access-token" =>
            Rejected(Initiate2FAUseCase(h)) /\ Rejected(Deinit2FAUseCase(h))
      /\ h.token.type # "2fa_pending" =>
            /\ Rejected(Setup2FAUseCase(h))
            /\ \A c \in TotpCodes \cup {NoCode}, r \in RecoveryCodes \cup {NoCode} :
                  Rejected(Verify2FAUseCase(h, c, r))

(* An access-token signed with the secret the pending tokens are signed with
   has been presented to Setup and refused. *)
C1_Witness ==
  /\ res.op = "Setup" /\ res.req.type = "access-token"
  /\ jwt.acs = jwt.p2a
  /\ res.err = "UnauthorizedError"

(* C2: a token mailed by ResetPasswordRequest is never accepted by
   VerifyEmail, and a token mailed by Register for the verification of the
   email is never accepted by ResetPassword. *)
C2_NoReplayAcrossPurposes ==
  /\ ~(res.op = "VerifyEmail" /\ res.req.mail = "reset" /\ res.err = "ok")
  /\ ~(res.op = "ResetPassword" /\ res.req.mail = "verification" /\ res.err = "ok")

(* The typed tokens the use cases sign: the pair of generateTokens and the
   pending token of Login and of Initiate *)
TypedTokens == {t \in Tokens(Ids) : t.type \in TokenTypes}

OtherTypesFail(t) ==
  \A T \in TokenTypes \ {t.type} : decodeUserId(t, T).err = "UnauthorizedError"

(* C3, as stated: for every user id and every token type T, a token signed
   with type T and decoded with expected type T before its expiry yields the
   user id, and decoding it with any other expected type fails. *)
C3_RoundTripEveryType ==
  \A t \in TypedTokens :
    /\ now < t.exp => decodeUserId(t, t.type) = [err |-> "ok", id |-> t.id]
    /\ OtherTypesFail(t)

(* C3, amended: the round trip holds for the types access-token and
   2fa_pending; a refresh-token is refused by decodeUserId under every
   expected type, its own included; decoding a token of any of the three
   types with another expected type fails. *)
C3_RoundTripHandledTypes ==
  \A t \in TypedTokens :
    /\ (now < t.exp /\ t.type # "refresh-token") =>
          decodeUserId(t, t.type) = [err |-> "ok", id |-> t.id]
    /\ t.type = "refresh-token" =>
          decodeUserId(t, t.type).err = "UnauthorizedError"
    /\ OtherTypesFail(t)

(* Initiate has decoded an unexpired access-token to its subject, at a time
   when an expired one exists too. *)
C3_Witness ==
  /\ res.op = "Initiate" /\ res.req.type = "access-token" /\ res.err = "ok"
  /\ res.user \in Ids
  /\ \E t \in TypedTokens : t.id = res.user /\ t.type = "access-token" /\ now >= t.exp

(* The Verify requests of an authenticated client *)
Authenticated(h) == authenticate(h, "2fa_pending").err = "ok"

Locked(u) == db[u].twoFA.lockedUntil # Null /\ db[u].twoFA.lockedUntil > now

(* C4: in every state where the lockedUntil of the user is set and lies in
   the future, Verify fails with UnauthorizedError and returns no tokens,
   whatever codes it carries. *)
C4_LockoutGuard ==
  \A h \in PendingHeaders, c \in TotpCodes \cup {NoCode}, r \in RecoveryCodes \cup {NoCode} :
    (Authenticated(h) /\ Locked(h.token.id)) =>
      LET v == Verify2FAUseCase(h, c, r)
      IN v.err = "UnauthorizedError" /\ v.out = {}

(* C5: once 5 Verify attempts in a row have failed for a user, the stored
   lockedUntil is later than the current time, and the attempt that follows
   them fails. *)
C5_LockoutTrigger ==
  (res.op = "Verify" /\ res.user \in Ids /\ res.run >= 5) =>
    /\ res.err # "ok"
    /\ Locked(res.user)

(* C6: Verify with a valid pending token and neither a TOTP code nor a
   recovery code fails with BadRequestError and returns no tokens. *)
C6_NeitherCodeRejected ==
  (/\ res.op = "Verify" /\ res.user \in Ids /\ res.req.type = "2fa_pending"
   /\ ~res.req.twoFACode /\ res.req.recoveryCode = NoCode) =>
    res.err = "BadRequestError" /\ res.out = {}

(* C7: Verify with both a TOTP code and a recovery code fails with
   BadRequestError and returns no tokens. *)
C7_BothCodesRejected ==
  (/\ res.op = "Verify" /\ res.user \in Ids /\ res.req.type = "2fa_pending"
   /\ res.req.twoFACode /\ res.req.recoveryCode # NoCode) =>
    res.err = "BadRequestError" /\ res.out = {}

AllRecoveryCodes == ((1..gens) \X (1..count)) \cup {FakeCode}

(* C8: a Verify with a recovery code that is stored succeeds and removes
   exactly the hash it matched, so that the list is one shorter; a Verify
   with a recovery code that is not stored (used before, or made up, or any
   code once the list is empty) fails with UnauthorizedError, returns no
   tokens and leaves the store as it was. *)
C8_RecoveryCodeSingleUse ==
  \A h \in PendingHeaders, r \in AllRecoveryCodes :
    Authenticated(h) =>
      LET u == h.token.id
          stored == db[u].twoFA.recoveryCodes
          v == Verify2FAUseCase(h, NoCode, r)
          left == v.db[u].twoFA.recoveryCodes
      IN IF hash(r) \in Range(stored)
         THEN /\ v.err = "ok"
              /\ Len(left) = Len(stored) - 1
              /\ Range(left) = Range(stored) \ {hash(r)}
              /\ \A i \in 1..Len(left), j \in 1..Len(left) : left[i] = left[j] => i = j
         ELSE Rejected(v)

(* The last code of a Setup has been replayed and refused after every code
   of the list was used. *)
C8_Witness ==
  /\ res.op = "Verify" /\ res.err = "UnauthorizedError"
  /\ ~res.req.twoFACode /\ res.req.recoveryCode = <<1, count>>
  /\ db[1].twoFA.twoFASecret # NoSecret
  /\ db[1].twoFA.recoveryCodes = <<>>

(* C9: a Verify that succeeds with a TOTP code stores failed2FAAttempts = 0,
   last2FAVerifiedAt = now and is2FASetUp = true, and returns an access-token
   and a refresh-token signed now for the subject of the pending token. *)
C9_TotpVerifyUpdates ==
  \A h \in PendingHeaders, c \in TotpCodes, r \in RecoveryCodes \cup {NoCode} :
    LET u == h.token.id
        v == Verify2FAUseCase(h, c, r)
    IN v.err = "ok" =>
         /\ v.db[u].twoFA.failed2FAAttempts = 0
         /\ v.db[u].twoFA.last2FAVerifiedAt = now
         /\ v.db[u].twoFA.is2FASetUp
         /\ \E a \in v.out, f \in v.out :
              /\ v.out = {a, f}
              /\ a.type = "access-token" /\ a.id = u /\ a.key = jwt.acs
              /\ a.exp = now + AccessTTL
              /\ f.type = "refresh-token" /\ f.id = u /\ f.key = jwt.rfs
              /\ f.exp = now + RefreshTTL

(* A first Verify with the current TOTP code has succeeded after a Setup. *)
C9_Witness ==
  /\ res.op = "Verify" /\ res.err = "ok"
  /\ res.req.twoFACode /\ res.req.recoveryCode = NoCode
  /\ res.user \in Ids /\ res.out # {}
  /\ db[res.user].twoFA.is2FASetUp
  /\ db[res.user].twoFA.last2FAVerifiedAt = now
  /\ Len(db[res.user].twoFA.recoveryCodes) = count

(* C10: after a Verify that succeeds with a recovery code the user has
   is2FASetUp = true, failed2FAAttempts = 0 and last2FAVerifiedAt set. *)
C10_RecoveryVerifyUpdates ==
  (/\ res.op = "Verify" /\ res.err = "ok" /\ res.user \in Ids
   /\ ~res.req.twoFACode /\ res.req.recoveryCode # NoCode) =>
    /\ db[res.user].twoFA.is2FASetUp
    /\ db[res.user].twoFA.failed2FAAttempts = 0
    /\ db[res.user].twoFA.last2FAVerifiedAt # Undefined

(* C11: Setup for a user whose is2FASetUp is true fails with
   BadRequestError and leaves the store, the secret and the recovery codes
   in it, as it was. *)
C11_SetupRefusedWhenActive ==
  \A h \in PendingHeaders :
    (Authenticated(h) /\ db[h.token.id].twoFA.is2FASetUp) =>
      LET v == Setup2FAUseCase(h)
      IN v.err = "BadRequestError" /\ v.db = db

(* C12: after every successful Setup the user holds an encrypted secret,
   exactly 10 hashed recovery codes, all of them generated by this Setup,
   is2FASetUp = false and failed2FAAttempts = 0. *)
C12_SetupLeavesFreshCodes ==
  (res.op = "Setup" /\ res.err = "ok" /\ res.user \in Ids) =>
    LET twoFA == db[res.user].twoFA
    IN /\ twoFA.twoFASecret = encrypt2FASecret(generate2FASecret(gens), gens)
       /\ Len(twoFA.recoveryCodes) = count
       /\ \A i \in 1..Len(twoFA.recoveryCodes) :
            twoFA.recoveryCodes[i] = hash(generateRecoveryCodes(gens)[i])
       /\ ~twoFA.is2FASetUp
       /\ twoFA.failed2FAAttempts = 0

AccessHeaders == {h \in Headers2FA : h.token.type = "access-token"}

(* C13: Initiate with a valid access-token fails with BadRequestError and
   issues nothing when the is2FASetUp of the subject is true; otherwise it
   returns one token, of type 2fa_pending, for the subject of the
   access-token; in both cases the store is left as it was. *)
C13_InitiateIssuesPendingToken ==
  \A h \in AccessHeaders :
    authenticate(h, "access-token").err = "ok" =>
      LET u == h.token.id
          v == Initiate2FAUseCase(h)
      IN /\ v.db = db
         /\ IF db[u].twoFA.is2FASetUp
            THEN v.err = "BadRequestError" /\ v.out = {}
            ELSE /\ v.err = "ok"
                 /\ \E t \in v.out :
                      /\ v.out = {t}
                      /\ t.type = "2fa_pending" /\ t.id = u /\ t.key = jwt.p2a
                      /\ t.exp = now + PendingInitiateTTL

(* Initiate has been refused for a user with active 2FA. *)
C13_Witness ==
  /\ res.op = "Initiate" /\ res.req.type = "access-token"
  /\ res.err = "BadRequestError" /\ res.out = {}
  /\ res.user \in Ids
  /\ db[res.user].twoFA.is2FASetUp

(* C14: once Setup has run for a user and before any successful Verify, an
   Initiate for that user fails with BadRequestError and issues no pending
   token. *)
C14_InitiateRefusedDuringSetup ==
  (res.op = "Setup" /\ res.err = "ok" /\ res.user \in Ids) =>
    \A h \in AccessHeaders :
      (authenticate(h, "access-token").err = "ok" /\ h.token.id = res.user) =>
        LET v == Initiate2FAUseCase(h)
        IN v.err = "BadRequestError" /\ v.out = {}

Inactive(u) == ~db[u].twoFA.is2FASetUp /\ db[u].twoFA.twoFASecret = NoSecret

(* C15: Deinit for a user whose 2FA is already disabled (is2FASetUp false
   and no secret stored, as after a Deinit) fails with BadRequestError and
   leaves the store as it was. *)
C15_DeinitRefusedWhenInactive ==
  \A h \in AccessHeaders :
    (authenticate(h, "access-token").err = "ok" /\ Inactive(h.token.id)) =>
      LET v == Deinit2FAUseCase(h)
      IN v.err = "BadRequestError" /\ v.db = db

(* C16: a successful Deinit leaves the user without a secret, with no
   recovery codes, failed2FAAttempts = 0, lockedUntil unset and
   is2FASetUp = false, and with the email, the password hash and the
   verified flag it had. *)
C16_DeinitClearsTwoFA ==
  \A h \in AccessHeaders :
    LET u == h.token.id
        v == Deinit2FAUseCase(h)
    IN v.err = "ok" =>
         /\ v.db[u].twoFA.twoFASecret = NoSecret
         /\ v.db[u].twoFA.recoveryCodes = <<>>
         /\ v.db[u].twoFA.failed2FAAttempts = 0
         /\ v.db[u].twoFA.lockedUntil = Null
         /\ ~v.db[u].twoFA.is2FASetUp
         /\ v.db[u].email = db[u].email
         /\ v.db[u].password = db[u].password
         /\ v.db[u].verified = db[u].verified

(* C17: a Login that passes the password check returns, for a user whose
   is2FASetUp is true, one 2fa_pending token for that user and no
   access-token or refresh-token; for a user whose is2FASetUp is false, an
   access-token and a refresh-token for that user. *)
C17_LoginBranchesOn2FA ==
  \A e \in Emails, p \in Passwords :
    LET v == LoginUseCase(e, p)
        u == getUserByEmail(e)
    IN v.err = "ok" =>
         /\ u \in Ids /\ v.user = u /\ compare(p, db[u].password)
         /\ \A t \in v.out : t.id = u
         /\ IF db[u].twoFA.is2FASetUp
            THEN /\ \E t \in v.out :
                      v.out = {t} /\ t.type = "2fa_pending" /\ t.key = jwt.p2a
                 /\ \A t \in v.out : t.type \notin {"access-token", "refresh-token"}
            ELSE \E a \in v.out, f \in v.out :
                   /\ v.out = {a, f}
                   /\ a.type = "access-token" /\ a.key = jwt.acs
                   /\ f.type = "refresh-token" /\ f.key = jwt.rfs

(* A user with active 2FA has logged in and got a pending token only. *)
C17_Witness ==
  /\ res.op = "Login" /\ res.err = "ok" /\ res.user \in Ids
  /\ db[res.user].twoFA.is2FASetUp
  /\ \A t \in res.out : t.type = "2fa_pending"
  /\ res.out # {}

(* C19: when the verification mail cannot be sent, Register reports an error
   and the record it saved stays: the user is found by the email, and every
   further Register with that email gets ConflictError. *)
C19_NoRollbackOnMailFailure ==
  /\ \A e \in Emails, p \in Passwords :
       checkExistance(e, "email", "conflict").err = "ok" =>
         LET v == RegisterUseCase(e, p, FALSE, "ok")
         IN /\ v.err \notin {"ok", "ConflictError"}
            /\ \E i \in Ids : v.db[i].exists /\ v.db[i].email = e
            /\ v.out = {}
  /\ (res.op = "Register" /\ res.err = "Error" /\ res.user \in Ids) =>
       /\ getUserByEmail(res.req.email) = res.user
       /\ \A p \in Passwords, sent \in BOOLEAN, saved \in SaveOutcomes :
            RegisterUseCase(res.req.email, p, sent, saved).err = "ConflictError"

(* A Register whose mail was not sent has reported an error and left the
   user findable by the email. *)
C19_Witness ==
  /\ res.op = "Register" /\ res.err = "Error"
  /\ res.user \in Ids
  /\ db[res.user].exists /\ db[res.user].email = res.req.email

AllTokens == Tokens(Ids) \cup ForgedTokens \cup {NoToken}

AllHeaders == Headers(Tokens(Ids) \cup ForgedTokens)

(* The store d differs from the present one in the verified flag of a user
   that is unverified now *)
Verifies(d, u) == db[u].exists /\ ~db[u].verified /\ d[u].verified

(* C18: after a valid registration the record found by the email has a
   stored password that differs from the plaintext and verified = false; and
   the verified flag of a user only becomes true by a VerifyEmail that
   succeeds with the email-verification token of that user. *)
C18_UnverifiedUntilVerifyEmail ==
  /\ \A e \in Emails, p \in Passwords, sent \in BOOLEAN, saved \in SaveOutcomes :
       LET v == RegisterUseCase(e, p, sent, saved)
       IN v.err # "ConflictError" =>
            /\ \A i \in Ids : (v.db[i].exists /\ v.db[i].email = e) =>
                 v.db[i].password # p /\ ~v.db[i].verified
            /\ \A u \in Ids : ~Verifies(v.db, u)
  /\ \A t \in AllTokens, u \in Ids :
       LET v == VerifyEmailUseCase(t)
       IN Verifies(v.db, u) =>
            v.err = "ok" /\ t.id = u /\ t.mail = "verification"
  /\ \A u \in Ids :
       /\ \A e \in Emails : ~Verifies(ResetPasswordRequestUseCase(e).db, u)
       /\ \A e \in Emails, p \in Passwords :
            /\ ~Verifies(LoginUseCase(e, p).db, u)
            /\ \A h \in AllHeaders : ~Verifies(ResetPasswordUseCase(e, p, h).db, u)
       /\ \A h \in AllHeaders : ~Verifies(Initiate2FAUseCase(h).db, u)

(* The tokens of every id, of a user in the store or not *)
TokensOfAnyone ==
  UNION {IssuedAt(t, u) \cup Forged(u) : t \in {x \in Times : x <= now}, u \in Ids}

(* C20: RefreshAccessToken returns a new access-token for a user only if
   the token presented is an unexpired refresh-token of that user, signed by
   the server, and the user is in the store; for a token of another type, an
   expired or forged token, or a subject that is not in the store, it fails
   and issues no token. *)
C20_RefreshOnlyWithRefreshToken ==
  \A t \in TokensOfAnyone :
    LET v == RefreshAccessToken(t)
        good == /\ t.type = "refresh-token" /\ t.key = jwt.rfs /\ t.key # 0
                /\ now < t.exp /\ db[t.id].exists
    IN IF good
       THEN /\ v.err = "ok"
            /\ \E a \in v.out :
                 /\ v.out = {a}
                 /\ a.type = "access-token" /\ a.id = t.id /\ a.key = jwt.acs
                 /\ a.exp = now + AccessTTL
       ELSE v.err # "ok" /\ v.out = {}

(* C30: a Verify that carries a TOTP code, for an account with no stored
   secret, fails with UnauthorizedError whatever the code, returns no token
   and leaves the store as it was. *)
C30_NoSecretNoVerify ==
  \A h \in PendingHeaders, c \in TotpCodes, r \in RecoveryCodes \cup {NoCode} :
    (Authenticated(h) /\ db[h.token.id].twoFA.twoFASecret = NoSecret) =>
      Rejected(Verify2FAUseCase(h, c, r))

(* A TOTP code has been refused for an account that has no secret, after a
   secret had been generated and withdrawn. *)
C30_Witness ==
  /\ res.op = "Verify" /\ res.req.twoFACode /\ res.err = "UnauthorizedError"
  /\ res.user \in Ids /\ res.req.type = "2fa_pending"
  /\ db[res.user].twoFA.twoFASecret = NoSecret
  /\ gens > 0

(* The code is not a TOTP code of the stored secret of u for the current
   step, the one before or the one after *)
WrongCode(c, u) ==
  \/ db[u].twoFA.twoFASecret = NoSecret
  \/ c[1] # db[u].twoFA.twoFASecret.ciphertext[2]
  \/ c[2] < (now \div TotpStep) - 1
  \/ c[2] > (now \div TotpStep) + 1

(* The recovery code is not one of the stored codes of u *)
UnknownCode(r, u) == \A i \in 1..Len(db[u].twoFA.recoveryCodes) : db[u].twoFA.recoveryCodes[i][2] # r

(* C26: a Verify that fails on its code, a wrong TOTP code or, with no TOTP
   code, a recovery code that matches no stored one, fails with
   UnauthorizedError, returns no token and leaves is2FASetUp, twoFASecret
   and recoveryCodes of the user as they were. *)
C26_FailedVerifyLeavesState ==
  \A h \in PendingHeaders, c \in TotpCodes \cup {NoCode}, r \in RecoveryCodes \cup {NoCode} :
    LET u == h.token.id
        v == Verify2FAUseCase(h, c, r)
    IN (/\ Authenticated(h)
        /\ \/ c # NoCode /\ WrongCode(c, u)
           \/ c = NoCode /\ r # NoCode /\ UnknownCode(r, u)) =>
         /\ v.err = "UnauthorizedError"
         /\ v.out = {}
         /\ v.db[u].twoFA.is2FASetUp = db[u].twoFA.is2FASetUp
         /\ v.db[u].twoFA.twoFASecret = db[u].twoFA.twoFASecret
         /\ v.db[u].twoFA.recoveryCodes = db[u].twoFA.recoveryCodes

(* A code of the stored secret, two steps old, has been refused while two
   factor authentication was active with the ten codes of its Setup. *)
C26_Witness ==
  /\ res.op = "Verify" /\ res.err = "UnauthorizedError" /\ res.user \in Ids
  /\ res.req.type = "2fa_pending" /\ res.req.twoFACode
  /\ db[res.user].twoFA.is2FASetUp
  /\ db[res.user].twoFA.twoFASecret # NoSecret
  /\ Len(db[res.user].twoFA.recoveryCodes) = count

(* C25: every Verify that fails on its code, a wrong TOTP code or, with no
   TOTP code, a recovery code that matches no stored one, leaves the stored
   failed2FAAttempts of the user one higher than it was. *)
C25_FailedVerifyCounted ==
  \A h \in PendingHeaders, c \in TotpCodes \cup {NoCode}, r \in RecoveryCodes \cup {NoCode} :
    LET u == h.token.id
        v == Verify2FAUseCase(h, c, r)
    IN (/\ Authenticated(h)
        /\ \/ c # NoCode /\ WrongCode(c, u)
           \/ c = NoCode /\ r # NoCode /\ UnknownCode(r, u)) =>
         v.db[u].twoFA.failed2FAAttempts = db[u].twoFA.failed2FAAttempts + 1

(* C24: a pending token is bound by its expiry only.  After a Verify has
   succeeded with a pending token, every pending token of that user that has
   not expired, the one just used among them, is accepted again: Setup
   succeeds with it, and so does Verify with no code or with a current code
   of the stored secret. *)
C24_PendingTokenReusable ==
  (res.op = "Verify" /\ res.err = "ok" /\ res.req.type = "2fa_pending") =>
    \A h \in PendingHeaders :
      (h.token.id = res.user /\ now < h.token.exp) =>
        /\ Authenticated(h)
        /\ Setup2FAUseCase(h).err = "ok"
        /\ Verify2FAUseCase(h, NoCode, NoCode).err = "ok"
        /\ db[res.user].twoFA.twoFASecret # NoSecret =>
             Verify2FAUseCase(h, totp(db[res.user].twoFA.twoFASecret.ciphertext[2], now),
                              NoCode).err = "ok"

(* Verify has succeeded with the second recovery code of a Setup, after it
   had succeeded with the first: pending tokens were accepted by Verify
   after a successful Verify. *)
C24_Witness ==
  /\ res.op = "Verify" /\ res.err = "ok" /\ res.req.type = "2fa_pending"
  /\ res.req.recoveryCode = <<1, 2>> /\ ~res.req.twoFACode
  /\ db[res.user].twoFA.twoFASecret # NoSecret

(* C28: a ResetPassword that succeeds changes the password of the subject of
   the token it was given and nothing else, in that account or in another;
   the email of the body only has to be the email of some account.  After
   it, Login with the email of the subject succeeds with the new password
   and fails with UnauthorizedError with any other. *)
C28_ResetChangesSubjectOnly ==
  /\ \A e \in Emails, p \in Passwords, h \in Headers(Tokens(Ids) \cup ForgedTokens) :
       LET v == ResetPasswordUseCase(e, p, h)
       IN v.err = "ok" =>
            /\ getUserByEmail(e) # 0
            /\ v.user = h.token.id
            /\ v.db = [db EXCEPT ![h.token.id].password = hashPassword(p)]
            /\ compare(p, v.db[h.token.id].password)
            /\ \A q \in Passwords \ {p} : ~compare(q, v.db[h.token.id].password)
  /\ (res.op = "ResetPassword" /\ res.err = "ok") =>
       /\ LoginUseCase(db[res.user].email, "password-2").err = "ok"
       /\ LoginUseCase(db[res.user].email, "password-1").err = "UnauthorizedError"

(* ResetPassword has succeeded with the email of one account in the body
   and a token of the other account. *)
C28_Witness ==
  /\ res.op = "ResetPassword" /\ res.err = "ok"
  /\ res.req.email # db[res.user].email
  /\ getUserByEmail(res.req.email) # 0
  /\ compare("password-1", db[getUserByEmail(res.req.email)].password)
  /\ compare("password-2", db[res.user].password)

(* C29: Register completes without an error only when the record of the new
   user is in the store: when the save of the record fails, Register throws,
   sends no mail and reports no success. *)
C29_RegisterOnlyWhenStored ==
  /\ (res.op = "Register" /\ res.err = "ok") => getUserByEmail(res.req.email) # 0
  /\ (res.op = "Register" /\ getUserByEmail(res.req.email) = 0) =>
       res.err # "ok" /\ res.out = {}

(* C21: a token of one of the three types that has reached its expiry, 300 s
   after it was issued for an access token, 420 s or 720 s for a pending
   token, 30 days for a refresh token, is refused by Initiate, Deinit, Setup,
   Verify and RefreshAccessToken with UnauthorizedError, whatever codes come
   with it, a correct one included; the store is left as it was and no
   token is returned. *)
C21_ExpiredTokenRefused ==
  \A t \in Tokens({1}) :
    (t.type \in TokenTypes /\ now >= t.exp) =>
      /\ Rejected(Initiate2FAUseCase(Bearer(t)))
      /\ Rejected(Deinit2FAUseCase(Bearer(t)))
      /\ Rejected(Setup2FAUseCase(Bearer(t)))
      /\ \A c \in TotpCodes \cup CurrentCodes \cup {NoCode}, r \in RecoveryCodes \cup {NoCode} :
            Rejected(Verify2FAUseCase(Bearer(t), c, r))
      /\ Rejected(RefreshAccessToken(t))

(* With two factor authentication active, Verify has refused an expired
   pending token that came with the current code of the stored secret. *)
C21_Witness ==
  /\ res.op = "Verify" /\ res.req.type = "2fa_pending" /\ res.req.expired
  /\ res.req.twoFACode
  /\ res.err = "UnauthorizedError" /\ res.out = {}
  /\ db[1].twoFA.is2FASetUp

(* The pending tokens of Initiate: the time a token was issued at is its
   expiry less PendingInitiateTTL *)
InitiateTokens ==
  {t \in Tokens({1}) : t.type = "2fa_pending" /\ (t.exp - PendingInitiateTTL) \in Times}

Age(t) == now - (t.exp - PendingInitiateTTL)

(* C22, as stated: the pending token of Initiate is accepted by Verify up to
   295 s after it was issued, and from 300 s on Verify refuses it as expired
   with UnauthorizedError, whatever codes come with it. *)
C22_PendingExpiresAt300 ==
  \A t \in InitiateTokens :
    /\ Age(t) <= AccessTTL - 5 => Verify2FAUseCase(Bearer(t), NoCode, NoCode).err = "ok"
    /\ Age(t) >= AccessTTL =>
         \A c \in CurrentCodes \cup {NoCode}, r \in RecoveryCodes \cup {NoCode} :
           Rejected(Verify2FAUseCase(Bearer(t), c, r))

(* C22, amended: the pending token of Initiate is accepted by Verify as long
   as less than 720 s have passed since it was issued, 295 s and 300 s after
   it included, with no code or with the current code of the stored secret;
   from 720 s on Verify refuses it as expired with UnauthorizedError,
   whatever codes come with it. *)
C22_PendingExpiresAt720 ==
  \A t \in InitiateTokens :
    /\ Age(t) < PendingInitiateTTL =>
         /\ decodeUserId(t, "2fa_pending") = [err |-> "ok", id |-> t.id]
         /\ \A c \in CurrentCodes \cup {NoCode} :
              Verify2FAUseCase(Bearer(t), c, NoCode).err = "ok"
    /\ Age(t) >= PendingInitiateTTL =>
         /\ verify(t, jwt.p2a) = "TokenExpiredError"
         /\ \A c \in CurrentCodes \cup {NoCode}, r \in RecoveryCodes \cup {NoCode} :
              Rejected(Verify2FAUseCase(Bearer(t), c, r))

(* 420 s after time 0, when of the pending tokens issued at time 0 only the
   one of Initiate is left, Verify has accepted a pending token with the
   current code of the stored secret. *)
C22_Witness ==
  /\ res.op = "Verify" /\ res.req.type = "2fa_pending" /\ ~res.req.expired
  /\ res.req.twoFACode /\ res.err = "ok"
  /\ now = PendingLoginTTL
  /\ db[1].twoFA.last2FAVerifiedAt = now

(* A request that loads the user and saves with no other request in between
   does what the handler does in one step. *)
LoadedAgreesWithHandler ==
  \A u \in {i \in Ids : db[i].exists} :
    /\ \A c \in TotpCodes : verify2FACodeLoaded(c, u, db[u]) = verify2FACode(c, u)
    /\ \A r \in RecoveryCodes :
         LET s == verifyRecoveryCodeLoaded(r, u, db[u], version[u])
         IN [err |-> s.err, db |-> s.db] = verifyRecoveryCode(r, u)
    /\ \A h \in AccessAt0 :
         h.token.id = u => deinitLoaded(u, db[u], version[u]).db = Deinit2FAUseCase(h).db

(* C27: in every state, under every interleaving of Setup, Verify and Deinit
   requests, a user whose is2FASetUp is true has a stored twoFASecret. *)
C27_ActiveImpliesSecret ==
  \A u \in Ids : db[u].twoFA.is2FASetUp => db[u].twoFA.twoFASecret # NoSecret

(* Both requests are Verify requests that carried the same recovery code and
   no TOTP code, loaded the user at the same version, with the code among
   the stored ones, and are done: both loaded before either saved. *)
SameCodeRace ==
  /\ \A p \in Procs :
       /\ inflight[p].pc = "done" /\ inflight[p].op = "Verify"
       /\ inflight[p].twoFACode = NoCode
       /\ matchIndex(inflight[p].recoveryCode, inflight[p].doc.twoFA.recoveryCodes) # 0
  /\ inflight[1].recoveryCode = inflight[2].recoveryCode
  /\ inflight[1].v = inflight[2].v

Honoured(p) == inflight[p].err = "ok" /\ inflight[p].out = generateTokens(inflight[p].user)

(* C23, as stated: two Verify requests of one user that both load the user
   before either saves, with the same unused recovery code, both succeed and
   both receive a pair of tokens. *)
C23_RecoveryCodeHonouredTwice ==
  SameCodeRace => \A p \in Procs : Honoured(p)

(* C23, amended: of two such requests the one that saves first succeeds and
   receives a pair of tokens; the save of the other fails with VersionError
   and it receives none; the code is gone from the store. *)
C23_RecoveryCodeHonouredOnce ==
  SameCodeRace =>
    /\ \E p \in Procs :
         /\ Honoured(p)
         /\ \A q \in Procs \ {p} : inflight[q].err = "VersionError" /\ inflight[q].out = {}
    /\ \A u \in Ids : UnknownCode(inflight[1].recoveryCode, u)

(* Two Verify requests have loaded the user with the ten codes of a Setup,
   have presented the first of them, and are done. *)
C23_Witness ==
  /\ SameCodeRace
  /\ inflight[1].recoveryCode = <<1, 1>>
  /\ Len(inflight[1].doc.twoFA.recoveryCodes) = count
  /\ Len(db[1].twoFA.recoveryCodes) = count - 1

====
